---- MODULE Spec2Model ----
(***************************************************************************)
(* Frame lifecycle and deferred GPU resource reclamation of tegne-rs /     *)
(* draw-it: Device::next_frame / submit / present, the per-slot            *)
(* destroyed_* queues, and the Context render-stage machine driving them.  *)
(* Two historical variants of Device are modelled: "tegne" (operations     *)
(* return Result and propagate native failures with `?`) and "draw_it"     *)
(* (native results go through vk::check).                                  *)
(***************************************************************************)
EXTENDS Integers, Sequences, FiniteSets, TLC

\* ---------------------------------------------------------------- bounds
MaxFrames == 3       \* next_frame calls ever started
MaxFailures == 1     \* native failures ever injected
MaxMemoryTypes == 3  \* memory types the physical device reports
MaxGpus == 3         \* GPUs the instance enumerates
MaxBytes == 8        \* bytes of a shader source
MaxModifications == 3  \* times the watched file is modified

\* ------------------------------------------------------ program constants
FRAMES_IN_FLIGHT == 2
magic_number == 119734787   \* 0x0723_0203, the first word of a SPIR-V module

Slots == 0 .. (FRAMES_IN_FLIGHT - 1)
NoSlot == FRAMES_IN_FLIGHT   \* an index outside Slots: "no slot"
SingleUse == NoSlot          \* where the single use command buffer of do_commands is kept

\* one GPU resource of each kind the reclamation ledger knows
Handles == {"buffer", "pipeline", "image"}
KindOf(h) == h

\* memory property flags a memory type can have
MemoryFlags == {"DEVICE_LOCAL", "HOST_VISIBLE"}

VARIABLES
    variant,              \* "tegne" | "draw_it": which Device source is running
    \* ---- Device fields
    current_frame,        \* Device.current_frame
    fence,                \* sync_queue_submit / sync_submit: slot -> signaled?
    cmd,                  \* command_buffers: slot -> lifecycle state of the slot's buffer;
                          \* at SingleUse, of the buffer do_commands is working with
    destroyed_pipelines,  \* slot -> Seq(handle)
    destroyed_buffers,    \* slot -> Seq(handle)   (the memory travels with the handle)
    destroyed_images,     \* slot -> Seq(handle)
    sync_used,            \* slots whose semaphores / fence the last acquire, submit, present used
    \* ---- Context fields
    render_stage,         \* "Before" | "During"
    \* ---- calling (render) thread
    pc,                   \* position of the render thread
    op,                   \* top-level call in progress
    nf_slot,              \* next_frame's local `current`
    result,               \* outcome of the last finished call: "None" | "Ok" | "Err" | "Panic"
    err,                  \* native code carried by the outcome
    proto,                \* where the sequence of Device protocol calls stands
    \* ---- GPU and native objects
    inflight,             \* Seq of submissions queued on the graphics queue, not yet completed
    bound,                \* slot -> handles referenced by the commands recorded in the slot's buffer
    live,                 \* handles whose wrapper object is alive
    destroys,             \* handle -> number of native destroy calls
    \* ---- history of each handle's release
    freed_at,             \* handle -> slot that was current at the free call (while queued)
    free_in_rec,          \* handle -> free call made while the current slot was being recorded
    sig_after,            \* handle -> fence of freed_at signaled by a submission made after the free
    released_by,          \* handle -> code path that made the native destroy call
    \* ---- exploration counters
    frames,               \* next_frame calls started
    frames_done,          \* next_frame calls that returned Ok
    failures,             \* native failures injected
    \* ---- other threads
    watcher,              \* the shader file watcher thread: "off" | "watching" | "reloading" | "stopped"
    \* ---- a call of a function that does not depend on the frame state
    arg,                  \* the function called and its arguments
    ret,                  \* what the call returned and what it left behind
    \* ---- the polling thread of watch_file
    modified_time,        \* the watched file's modification time
    modifications,        \* times the file was modified
    last_modified,        \* the thread's `last_modified`: Option of a time
    channel,              \* the messages sent on `sender`
    receiver,             \* the other end of the channel: "alive" | "dropped"
    poller,               \* the thread: "off" | "polling" | "panicked"
    observed,             \* what the previous poll read from the metadata
    tick                  \* flips at every poll

devVars == <<current_frame, fence, cmd, sync_used>>
queueVars == <<destroyed_pipelines, destroyed_buffers, destroyed_images>>
thrVars == <<pc, op, nf_slot, result, err>>
gpuVars == <<inflight, bound>>
resVars == <<live, destroys>>
histVars == <<freed_at, free_in_rec, sig_after, released_by>>
cntVars == <<frames, frames_done, failures>>
pollVars == <<modified_time, modifications, last_modified, channel, receiver, poller,
              observed, tick>>
envVars == <<variant, watcher, arg, ret, pollVars>>

vars == <<variant, current_frame, fence, cmd, destroyed_pipelines,
          destroyed_buffers, destroyed_images, sync_used, render_stage, pc, op,
          nf_slot, result, err, proto, inflight, bound, live, destroys,
          freed_at, free_in_rec, sig_after, released_by,
          frames, frames_done, failures, watcher, arg, ret,
          modified_time, modifications, last_modified, channel, receiver, poller,
          observed, tick>>

\* The tegne Device is driven through Context (context.rs calls its Result
\* returning operations); the draw_it Device, whose Context is not among the
\* sources, is called directly.
caller == IF variant = "tegne" THEN "context" ELSE "device"

\* ----------------------------------------------------------------- helpers
Range(s) == {s[i] : i \in 1 .. Len(s)}

\* handles a not yet completed submission references
InFlightRefs == UNION {inflight[i].refs : i \in 1 .. Len(inflight)}

Count(s, h) == Cardinality({i \in 1 .. Len(s) : s[i] = h})

\* handles waiting in the reclamation queues of slot s
Queued(s) == Range(destroyed_pipelines[s]) \cup Range(destroyed_buffers[s])
                 \cup Range(destroyed_images[s])

\* ---------------------------------------------------------------- Init
\* fences created without the signaled bit
FenceCreatedUnsignaled == FALSE

\* Device::new creates every slot's fence with FENCE_CREATE_SIGNALED_BIT
FenceCreatedSignaled == TRUE

\* Device::new: current_frame = 0, fences created signaled, one command
\* buffer allocated per slot, empty destroyed_* storage.  Context::new:
\* render_stage = Before.
DeviceNew ==
    /\ variant \in {"tegne", "draw_it"}
    /\ current_frame = 0
    /\ fence = [s \in Slots |-> FenceCreatedSignaled]
    /\ cmd = [s \in Slots \cup {SingleUse} |-> IF s = SingleUse THEN "none" ELSE "initial"]
    /\ destroyed_pipelines = [s \in Slots |-> <<>>]
    /\ destroyed_buffers = [s \in Slots |-> <<>>]
    /\ destroyed_images = [s \in Slots |-> <<>>]
    /\ sync_used = [acquire |-> NoSlot, wait |-> NoSlot, signal |-> NoSlot,
                    done |-> NoSlot, present |-> NoSlot]
    /\ render_stage = "Before"
    /\ pc = "idle"
    /\ op = "none"
    /\ nf_slot = 0
    /\ result = "None"
    /\ err = "NONE"
    /\ proto = "start"
    /\ inflight = <<>>
    /\ bound = [s \in Slots |-> {}]
    /\ destroys = [h \in Handles |-> 0]
    /\ freed_at = [h \in Handles |-> NoSlot]
    /\ free_in_rec = [h \in Handles |-> FALSE]
    /\ sig_after = [h \in Handles |-> FALSE]
    /\ released_by = [h \in Handles |-> "none"]
    /\ frames = 0
    /\ frames_done = 0
    /\ failures = 0

\* no frame independent function is being called
NoCall == arg = [fn |-> "none"] /\ ret = [fn |-> "none"]

None == [some |-> FALSE]
Some(x) == [some |-> TRUE, time |-> x]

\* watch_file was not called
NoPoll ==
    /\ modified_time = 0
    /\ modifications = 0
    /\ last_modified = None
    /\ channel = <<>>
    /\ receiver = "alive"
    /\ poller = "off"
    /\ observed = None
    /\ tick = FALSE

\* the frame state, which the frame independent functions leave alone
frameVarsNoPoll == <<devVars, queueVars, render_stage, thrVars, proto, gpuVars, resVars,
                     histVars, cntVars, variant, watcher>>
frameVars == <<frameVarsNoPoll, pollVars>>

\* the run's buffer, pipeline and image are created before the first frame
Init == DeviceNew /\ live = Handles /\ watcher = "off" /\ NoCall /\ NoPoll

\* a run that creates no resources: the frame protocol alone
InitFrame == DeviceNew /\ live = {} /\ watcher = "off" /\ NoCall /\ NoPoll

\* Context::create_shader_from_file_watch was called: one shader, watched
InitWatch ==
    DeviceNew /\ variant = "tegne" /\ live = {"pipeline"} /\ watcher = "watching" /\ NoCall /\ NoPoll

\* ------------------------------------------------------- call / return
\* a top-level call returns to the caller
Return(r, code) ==
    /\ pc' = "idle"
    /\ op' = "none"
    /\ result' = r
    /\ err' = code

\* tegne: `?` returns the native code to the caller as Err
Propagate(code) ==
    /\ pc' = "idle"
    /\ op' = "none"
    /\ result' = "Err"
    /\ err' = code

\* draw_it: vk::check on a code other than success ends the thread
vk_check(code) ==
    /\ pc' = "panicked"
    /\ op' = "none"
    /\ result' = "Panic"
    /\ err' = code

\* a native call reported `code`
NativeFailure(code) ==
    /\ IF variant = "tegne" THEN Propagate(code) ELSE vk_check(code)
    /\ failures' = failures + 1

CanFail == failures < MaxFailures

\* the protocol position after Device operation `call` is invoked at
\* position p: next_frame, submit, present in that order, else "broken"
ProtoStep(p, call) ==
    CASE p = "broken" -> "broken"
      [] call = "next_frame" /\ p \in {"start", "present"} -> "next_frame"
      [] call = "submit" /\ p = "next_frame" -> "submit"
      [] call = "present" /\ p = "submit" -> "present"
      [] OTHER -> "broken"

\* ------------------------------------------------------------ resources
\* the slot whose queue a free call appends to
QueueSlot == current_frame

\* history kept at every free call of handle h
NoteFree(h) ==
    /\ freed_at' = [freed_at EXCEPT ![h] = current_frame]
    /\ free_in_rec' = [free_in_rec EXCEPT ![h] = (cmd[current_frame] = "recording")]

\* a native destroy call on each handle of bag n (handle -> number of calls)
NativeDestroy(n, by) ==
    /\ destroys' = [h \in Handles |-> destroys[h] + n[h]]
    /\ released_by' = [h \in Handles |-> IF n[h] > 0 THEN by ELSE released_by[h]]

free_buffer(h) ==
    /\ destroyed_buffers' = [destroyed_buffers EXCEPT ![QueueSlot] = Append(@, h)]
    /\ UNCHANGED <<destroyed_pipelines, destroyed_images, destroys, released_by>>

destroy_pipeline(h) ==
    /\ destroyed_pipelines' = [destroyed_pipelines EXCEPT ![QueueSlot] = Append(@, h)]
    /\ UNCHANGED <<destroyed_buffers, destroyed_images, destroys, released_by>>

free_image(h) ==
    /\ NativeDestroy([g \in Handles |-> IF g = h THEN 1 ELSE 0], "free_image")
    /\ UNCHANGED queueVars

\* the wrapper objects are dropped by the caller between calls, and by
\* Context's field drops during teardown
CanDrop(h, k) == pc \in {"idle", "teardown"} /\ h \in live /\ KindOf(h) = k

DropBufferMemory(h) ==
    /\ CanDrop(h, "buffer")
    /\ live' = live \ {h}
    /\ NoteFree(h)
    /\ free_buffer(h)
    /\ UNCHANGED <<devVars, render_stage, thrVars, proto, gpuVars, sig_after,
                   cntVars, envVars>>

DropShader(h) ==
    /\ CanDrop(h, "pipeline")
    /\ live' = live \ {h}
    /\ NoteFree(h)
    /\ destroy_pipeline(h)
    /\ UNCHANGED <<devVars, render_stage, thrVars, proto, gpuVars, sig_after,
                   cntVars, envVars>>

\* the older Shader wrapper: its Drop calls the native destroy directly
DropShaderDirect(h) ==
    /\ CanDrop(h, "pipeline")
    /\ live' = live \ {h}
    /\ free_in_rec' = [free_in_rec EXCEPT ![h] = (cmd[current_frame] = "recording")]
    /\ NativeDestroy([g \in Handles |-> IF g = h THEN 1 ELSE 0], "shader_drop")
    /\ UNCHANGED <<devVars, queueVars, render_stage, thrVars, proto, gpuVars,
                   freed_at, sig_after, cntVars, envVars>>

DropImageMemory(h) ==
    /\ CanDrop(h, "image")
    /\ live' = live \ {h}
    /\ free_in_rec' = [free_in_rec EXCEPT ![h] = (cmd[current_frame] = "recording")]
    /\ free_image(h)
    /\ UNCHANGED <<devVars, render_stage, thrVars, proto, gpuVars, freed_at, sig_after,
                   cntVars, envVars>>

\* records of handle h waiting in the queues of slot s
SlotCount(s, h) == Count(destroyed_pipelines[s], h) + Count(destroyed_buffers[s], h)
                       + Count(destroyed_images[s], h)

RECURSIVE QueuedCount(_, _)
QueuedCount(S, h) ==
    IF S = {} THEN 0
    ELSE LET s == CHOOSE x \in S : TRUE IN SlotCount(s, h) + QueuedCount(S \ {s}, h)

\* a cleanup_resources that leaves the records in the queue
NotCleared(q) == q

\* the queue of slot s after cleanup_resources went through it
Cleared(q) == <<>>

\* cleanup_resources(frame) for every frame of S: one native destroy per
\* record of the three queues, then the queues are cleared
cleanup_resources(S, by) ==
    /\ NativeDestroy([h \in Handles |-> QueuedCount(S, h)], by)
    /\ destroyed_pipelines' = [s \in Slots |->
           IF s \in S THEN Cleared(destroyed_pipelines[s]) ELSE destroyed_pipelines[s]]
    /\ destroyed_buffers' = [s \in Slots |->
           IF s \in S THEN Cleared(destroyed_buffers[s]) ELSE destroyed_buffers[s]]
    /\ destroyed_images' = [s \in Slots |->
           IF s \in S THEN Cleared(destroyed_images[s]) ELSE destroyed_images[s]]
    /\ freed_at' = [h \in Handles |-> IF QueuedCount(S, h) > 0 THEN NoSlot ELSE freed_at[h]]
    /\ sig_after' = [h \in Handles |-> QueuedCount(S, h) = 0 /\ sig_after[h]]

\* ------------------------------------------------------- frame protocol
\* a next_frame that keeps the slot it has
SameSlot == current_frame

\* next_frame: `current = (current + 1) % IN_FLIGHT_FRAME_COUNT`
NextSlot == (current_frame + 1) % FRAMES_IN_FLIGHT

\* outcomes of the native swapchain acquire
AcquireCodes == {"SUCCESS", "OUT_OF_DATE", "DEVICE_LOST"}

\* a next_frame that stores the new slot index before it acquires
StoreThenAcquire ==
    /\ pc = "nf_acquire"
    /\ nf_slot' = NextSlot
    /\ current_frame' = NextSlot
    /\ proto' = IF ProtoStep(proto, "next_frame") = "broken" THEN "broken" ELSE proto
    /\ sync_used' = [sync_used EXCEPT !.acquire = NextSlot]
    /\ \E code \in AcquireCodes :
         IF code = "SUCCESS"
         THEN /\ pc' = "nf_wait"
              /\ UNCHANGED <<op, result, err, failures>>
         ELSE /\ CanFail
              /\ NativeFailure(code)
    /\ UNCHANGED <<fence, cmd, queueVars, render_stage, gpuVars, resVars,
                   histVars, frames, frames_done, envVars>>

\* next_frame, first part: compute the new slot and acquire the next
\* swapchain image, signaling the new slot's acquire semaphore
swapchain_next ==
    /\ pc = "nf_acquire"
    /\ nf_slot' = NextSlot
    /\ proto' = IF ProtoStep(proto, "next_frame") = "broken" THEN "broken" ELSE proto
    /\ sync_used' = [sync_used EXCEPT !.acquire = NextSlot]
    /\ \E code \in AcquireCodes :
         IF code = "SUCCESS"
         THEN /\ pc' = "nf_wait"
              /\ UNCHANGED <<op, result, err, failures>>
         ELSE /\ CanFail
              /\ NativeFailure(code)
    /\ UNCHANGED <<current_frame, fence, cmd, queueVars, render_stage, gpuVars, resVars,
                   histVars, frames, frames_done, envVars>>

\* a next_frame that does not wait for the slot's fence
NoFenceWait(s) == TRUE

\* fence::wait_for(sync_queue_submit[current]) returns once the fence is signaled
FenceWaitReturns(s) == fence[s]

\* where the part of next_frame after the fence wait can fail
NfFailPoints == {"none", "reset_pool", "allocate", "begin"}

\* next_frame, second part: fence wait, fence reset, command buffer free,
\* cleanup_resources(current), reallocate, begin, current_frame.store
next_frame ==
    /\ pc = "nf_wait"
    /\ FenceWaitReturns(nf_slot)
    /\ fence' = [fence EXCEPT ![nf_slot] = FALSE]
    /\ \E fp \in NfFailPoints :
         /\ cmd' = [cmd EXCEPT ![nf_slot] =
                CASE fp = "reset_pool" -> @
                  [] fp = "allocate" -> "freed"
                  [] fp = "begin" -> "initial"
                  [] OTHER -> "recording"]
         /\ bound' = IF fp = "reset_pool" THEN bound ELSE [bound EXCEPT ![nf_slot] = {}]
         /\ IF fp = "reset_pool"
            THEN UNCHANGED <<queueVars, destroys, released_by, freed_at, sig_after>>
            ELSE cleanup_resources({nf_slot}, "next_frame")
         /\ IF fp = "none"
            THEN /\ current_frame' = nf_slot
                 /\ frames_done' = frames_done + 1
                 /\ proto' = ProtoStep(proto, "next_frame")
                 /\ pc' = IF op = "next_frame" THEN "idle" ELSE "body"
                 /\ op' = IF op = "next_frame" THEN "none" ELSE op
                 /\ result' = IF op = "next_frame" THEN "Ok" ELSE result
                 /\ err' = IF op = "next_frame" THEN "NONE" ELSE err
                 /\ UNCHANGED failures
            ELSE /\ CanFail
                 /\ NativeFailure("DEVICE_LOST")
                 /\ UNCHANGED <<current_frame, frames_done, proto>>
    /\ UNCHANGED <<sync_used, render_stage, nf_slot, inflight, live, free_in_rec,
                   frames, envVars>>

\* handles waiting in slot s's queues when slot s is submitted
Covers(s) == {h \in Handles : freed_at[h] = s}

\* the slot whose semaphores and fence submit and present use
SyncSlot == current_frame

\* submit: end the current slot's command buffer and queue it, waiting on the
\* slot's acquire semaphore, signaling its release semaphore and its fence
submit ==
    /\ pc = "submit"
    /\ \E code \in {"SUCCESS", "END_FAILED", "SUBMIT_FAILED"} :
         /\ code = "SUCCESS" =>
              /\ inflight' = Append(inflight, [slot |-> SyncSlot,
                                               refs |-> bound[current_frame],
                                               covers |-> Covers(SyncSlot)])
              /\ cmd' = [cmd EXCEPT ![current_frame] = "pending"]
              /\ sync_used' = [sync_used EXCEPT !.wait = SyncSlot,
                                                !.signal = SyncSlot,
                                                !.done = SyncSlot]
              /\ proto' = ProtoStep(proto, "submit")
              /\ pc' = IF op = "submit" THEN "idle" ELSE "present"
              /\ op' = IF op = "submit" THEN "none" ELSE op
              /\ result' = IF op = "submit" THEN "Ok" ELSE result
              /\ err' = IF op = "submit" THEN "NONE" ELSE err
              /\ UNCHANGED failures
         /\ code # "SUCCESS" =>
              /\ CanFail
              /\ NativeFailure("DEVICE_LOST")
              /\ cmd' = [cmd EXCEPT ![current_frame] =
                     IF code = "SUBMIT_FAILED" /\ @ = "recording" THEN "executable" ELSE @]
              /\ proto' = IF ProtoStep(proto, "submit") = "broken" THEN "broken" ELSE proto
              /\ UNCHANGED <<inflight, sync_used>>
    /\ UNCHANGED <<current_frame, fence, queueVars, render_stage, nf_slot, bound, resVars,
                   histVars, frames, frames_done, envVars>>

\* present: queue a present waiting on the current slot's release semaphore
present ==
    /\ pc = "present"
    /\ sync_used' = [sync_used EXCEPT !.present = SyncSlot]
    /\ \E code \in {"SUCCESS", "OUT_OF_DATE", "DEVICE_LOST"} :
         IF code = "SUCCESS"
         THEN /\ Return("Ok", "NONE")
              /\ proto' = ProtoStep(proto, "present")
              /\ UNCHANGED failures
         ELSE /\ CanFail
              /\ NativeFailure(code)
              /\ proto' = ProtoStep(proto, "present")
    /\ UNCHANGED <<current_frame, fence, cmd, queueVars, render_stage, nf_slot, gpuVars,
                   resVars, histVars, frames, frames_done, envVars>>

\* the GPU finishes the oldest queued submission: its fence is signaled
GpuComplete ==
    /\ inflight # <<>>
    /\ LET sub == Head(inflight) IN
         /\ fence' = IF sub.slot \in Slots THEN [fence EXCEPT ![sub.slot] = TRUE] ELSE fence
         /\ cmd' = [cmd EXCEPT ![sub.slot] = IF @ = "pending" THEN "invalid" ELSE @]
         /\ sig_after' = [h \in Handles |->
                sig_after[h] \/ (h \in sub.covers /\ freed_at[h] = sub.slot)]
    /\ inflight' = Tail(inflight)
    /\ UNCHANGED <<current_frame, sync_used, queueVars, render_stage, thrVars, proto,
                   bound, resVars, freed_at, free_in_rec, released_by, cntVars, envVars>>

\* a teardown that does not wait for the device
NoIdleWait == TRUE

\* wait_for_idle (tegne): every slot's fence is waited for, then the queues
\* and the device are idle.  wait_idle (draw_it): device_wait_idle alone.
WaitIdleReturns ==
    IF variant = "tegne"
    THEN (\A s \in Slots : fence[s]) /\ inflight = <<>>
    ELSE inflight = <<>>

wait_for_idle ==
    /\ pc = "wait_idle"
    /\ WaitIdleReturns
    /\ pc' = IF op = "resize" THEN "recreate" ELSE "teardown"
    /\ UNCHANGED <<op, result, err>>
    /\ UNCHANGED <<devVars, queueVars, render_stage, nf_slot, proto, gpuVars, resVars,
                   histVars, cntVars, envVars>>

\* Context::resize after its wait_for_idle: the surface is resized, the
\* swapchain recreated and the window framebuffers replaced (the old ones
\* are destroyed by Framebuffer's Drop); each `?` can return early
swapchain_recreate ==
    /\ pc = "recreate"
    /\ \/ /\ Return("Ok", "NONE")
          /\ UNCHANGED failures
       \/ /\ CanFail
          /\ NativeFailure("DEVICE_LOST")
    /\ UNCHANGED <<devVars, queueVars, render_stage, nf_slot, proto, gpuVars, resVars,
                   histVars, frames, frames_done, envVars>>

\* impl Drop for Device, run once every wrapper has released its reference
DropDevice ==
    /\ pc = "teardown"
    /\ live = {}
    /\ watcher \in {"off", "stopped"}
    /\ cleanup_resources(Slots, "drop")
    /\ pc' = "dropped"
    /\ UNCHANGED <<devVars, render_stage, op, nf_slot, result, err, proto, gpuVars,
                   live, free_in_rec, cntVars, envVars>>

\* ---------------------------------------------------------------- Context
\* begin_draw: render_stage = During, then Device::next_frame
begin_draw ==
    /\ frames < MaxFrames
    /\ render_stage' = "During"
    /\ pc' = "nf_acquire"
    /\ frames' = frames + 1

\* the `if let RenderStage::Before = self.render_stage` head of the draw calls
DrawCall(name) ==
    /\ pc = "idle"
    /\ caller = "context"
    /\ op' = name
    /\ IF render_stage = "Before"
       THEN begin_draw
       ELSE /\ pc' = "body"
            /\ UNCHANGED <<render_stage, frames>>
    /\ UNCHANGED <<devVars, queueVars, nf_slot, result, err, proto, gpuVars, resVars,
                   histVars, frames_done, failures, envVars>>

\* a draw that begins a frame whatever the render stage is
DrawAlwaysBegins ==
    /\ pc = "idle"
    /\ caller = "context"
    /\ op' = "draw"
    /\ begin_draw
    /\ UNCHANGED <<devVars, queueVars, nf_slot, result, err, proto, gpuVars, resVars,
                   histVars, frames_done, failures, envVars>>

draw == DrawCall("draw")

draw_ui == DrawCall("draw_ui")

draw_on_window == DrawCall("draw_on_window")

\* end_draw: render_stage = Before, then submit and present
end_draw ==
    /\ render_stage' = "Before"
    /\ pc' = "submit"

\* the body of a draw call: the renderer records commands that reference
\* the live resources; draw_on_window goes on to end_draw
RecordDraw ==
    /\ pc = "body"
    /\ bound' = [bound EXCEPT ![current_frame] = @ \cup live]
    /\ IF op = "draw_on_window"
       THEN /\ end_draw
            /\ UNCHANGED <<op, result, err>>
       ELSE /\ Return("Ok", "NONE")
            /\ UNCHANGED render_stage
    /\ UNCHANGED <<devVars, queueVars, nf_slot, proto, inflight, resVars, histVars,
                   cntVars, envVars>>

\* Context::resize and impl Drop for Context both start with wait_for_idle
StartWaitIdle(name) ==
    /\ pc = "idle"
    /\ op' = name
    /\ pc' = "wait_idle"
    /\ UNCHANGED <<devVars, queueVars, render_stage, nf_slot, result, err, proto,
                   gpuVars, resVars, histVars, cntVars, envVars>>

resize == caller = "context" /\ StartWaitIdle("resize")

DropContext == StartWaitIdle("drop")

\* ------------------------------------------------ Device called directly
DevCall(name, at) ==
    /\ pc = "idle"
    /\ caller = "device"
    /\ op' = name
    /\ pc' = at
    /\ UNCHANGED <<devVars, queueVars, render_stage, nf_slot, result, err, proto,
                   gpuVars, resVars, histVars, frames_done, failures, envVars>>

DevNextFrame == frames < MaxFrames /\ frames' = frames + 1 /\ DevCall("next_frame", "nf_acquire")

DevSubmit == cmd[current_frame] = "recording" /\ UNCHANGED frames /\ DevCall("submit", "submit")

DevPresent == proto = "submit" /\ UNCHANGED frames /\ DevCall("present", "present")

DevRecord ==
    /\ pc = "idle"
    /\ caller = "device"
    /\ cmd[current_frame] = "recording"
    /\ ~(live \subseteq bound[current_frame])
    /\ bound' = [bound EXCEPT ![current_frame] = @ \cup live]
    /\ UNCHANGED <<devVars, queueVars, render_stage, thrVars, proto, inflight, resVars,
                   histVars, cntVars, envVars>>


\* ------------------------------------------------- single use commands
\* device_wait_idle returns once no submission is pending
NoDeviceWait == TRUE

DeviceWaitIdleReturns == inflight = <<>>

\* what every step of do_commands leaves alone
DoCommandsFrame ==
    UNCHANGED <<current_frame, fence, sync_used, queueVars, render_stage, nf_slot, proto,
                bound, resVars, histVars, frames, frames_done, envVars>>

\* do_commands: create the transient pool, allocate the buffer, begin it
do_commands ==
    /\ pc = "idle"
    /\ \/ /\ cmd' = [cmd EXCEPT ![SingleUse] = "recording"]
          /\ pc' = "dc_record"
          /\ op' = "do_commands"
          /\ UNCHANGED <<result, err, failures>>
       \/ /\ CanFail
          /\ NativeFailure("DEVICE_LOST")
          /\ UNCHANGED cmd
    /\ UNCHANGED inflight
    /\ DoCommandsFrame

\* do_commands: fun(buffer), then end_command_buffer
DoCommandsRecord ==
    /\ pc = "dc_record"
    /\ \/ /\ cmd' = [cmd EXCEPT ![SingleUse] = "executable"]
          /\ pc' = "dc_submit"
          /\ UNCHANGED <<op, result, err, failures>>
       \/ /\ CanFail
          /\ NativeFailure("DEVICE_LOST")
          /\ UNCHANGED cmd
    /\ UNCHANGED inflight
    /\ DoCommandsFrame

\* submit_and_wait, first half: queue_submit with no semaphores and a null fence
submit_and_wait ==
    /\ pc = "dc_submit"
    /\ \/ /\ inflight' = Append(inflight, [slot |-> NoSlot, refs |-> {}, covers |-> {}])
          /\ cmd' = [cmd EXCEPT ![SingleUse] = "pending"]
          /\ pc' = "dc_wait"
          /\ UNCHANGED <<op, result, err, failures>>
       \/ /\ CanFail
          /\ NativeFailure("DEVICE_LOST")
          /\ UNCHANGED <<cmd, inflight>>
    /\ DoCommandsFrame

\* submit_and_wait, second half: device_wait_idle; then do_commands destroys
\* the pool with its buffer
DoCommandsFinish ==
    /\ pc = "dc_wait"
    /\ \/ /\ DeviceWaitIdleReturns
          /\ cmd' = [cmd EXCEPT ![SingleUse] = "none"]
          /\ Return("Ok", "NONE")
          /\ UNCHANGED failures
       \/ /\ CanFail
          /\ NativeFailure("DEVICE_LOST")
          /\ UNCHANGED cmd
    /\ UNCHANGED inflight
    /\ DoCommandsFrame

NextCommands ==
    \/ do_commands
    \/ DoCommandsRecord
    \/ submit_and_wait
    \/ DoCommandsFinish


\* ------------------------------------------------- shader file watcher
\* the thread spawned by create_shader_from_file_watch receives a Write
\* event, reads the file and builds the new Shader with Shader::new
WatcherWrite ==
    /\ watcher = "watching"
    /\ pc \notin {"dropped", "panicked"}
    /\ "pipeline" \in live
    /\ watcher' = "reloading"
    /\ UNCHANGED <<devVars, queueVars, render_stage, thrVars, proto, gpuVars, resVars,
                   histVars, cntVars, variant, arg, ret, pollVars>>

\* `shader_ref.with(|s| *s = new_shader)`: the old Shader is dropped on the
\* watcher thread, its Drop calls Device::destroy_pipeline
WatcherReplace ==
    /\ watcher = "reloading"
    /\ "pipeline" \in live
    /\ live' = live \ {"pipeline"}
    /\ NoteFree("pipeline")
    /\ destroy_pipeline("pipeline")
    /\ watcher' = "watching"
    /\ UNCHANGED <<devVars, render_stage, thrVars, proto, gpuVars, sig_after,
                   cntVars, variant, arg, ret, pollVars>>

\* impl Drop for Context sends Rescan: the thread leaves its loop and drops
\* its clone of the Device
WatcherStop ==
    /\ watcher \in {"watching", "reloading"}
    /\ pc \in {"wait_idle", "teardown"}
    /\ op = "drop"
    /\ watcher' = "stopped"
    /\ UNCHANGED <<devVars, queueVars, render_stage, thrVars, proto, gpuVars, resVars,
                   histVars, cntVars, variant, arg, ret, pollVars>>


\* ----------------------------------------------------- memory allocation
\* bit i of the requirement bitmask: `type_filter & (1 << i) != 0`
HasType(type_filter, i) == (type_filter \div (2 ^ i)) % 2 = 1

\* `(mem_type.property_flags & props) == props`
HasProperties(flags, props) == (flags \cap props) = props

\* find over memory_types.iter().enumerate(), from index i on
RECURSIVE FindFrom(_, _, _, _)
FindFrom(i, type_filter, props, types) ==
    IF i >= Len(types) THEN [some |-> FALSE]
    ELSE IF HasType(type_filter, i) /\ HasProperties(types[i + 1], props)
         THEN [some |-> TRUE, index |-> i]
         ELSE FindFrom(i + 1, type_filter, props, types)

find_memory_type(type_filter, props, types) == FindFrom(0, type_filter, props, types)

\* find_memory_type found nothing.  tegne: ok_or(UnsupportedMemoryType)?;
\* draw_it: expect("bad memory type")
NoMemoryType(made) ==
    IF variant = "tegne"
    THEN [fn |-> arg.fn, result |-> "Err", error |-> "UnsupportedMemoryType",
          mem_type |-> [some |-> FALSE], native |-> made, returned |-> FALSE]
    ELSE [fn |-> arg.fn, result |-> "Panic", error |-> "bad memory type",
          mem_type |-> [some |-> FALSE], native |-> made, returned |-> FALSE]

\* a native call of the allocation failed after the objects of `made` were created
AllocFailed(made, mt) ==
    [fn |-> arg.fn, result |-> IF variant = "tegne" THEN "Err" ELSE "Panic",
     error |-> "Native", mem_type |-> mt, native |-> made, returned |-> FALSE]

\* allocate_buffer / allocate_image: create the handle, get its requirements,
\* find the memory type, allocate the memory, bind it
allocate(kind, props) ==
    /\ arg.fn = kind
    /\ ret.fn = "none"
    /\ \E fail \in {"none", "create", "allocate", "bind"} :
         LET mt == find_memory_type(arg.type_filter, props, arg.memory_types) IN
         ret' = CASE fail = "create" -> AllocFailed({}, [some |-> FALSE])
                  [] fail # "create" /\ ~mt.some -> NoMemoryType({"handle"})
                  [] fail = "allocate" /\ mt.some -> AllocFailed({"handle"}, mt)
                  [] fail = "bind" /\ mt.some -> AllocFailed({"handle", "memory"}, mt)
                  [] OTHER -> [fn |-> arg.fn, result |-> "Ok", error |-> "NONE",
                               mem_type |-> mt, native |-> {"handle", "memory"},
                               returned |-> TRUE]
    /\ UNCHANGED <<frameVars, arg>>

allocate_buffer == allocate("allocate_buffer", arg.props)

\* allocate_image asks for DEVICE_LOCAL memory
allocate_image == allocate("allocate_image", {"DEVICE_LOCAL"})

\* the lists of memory types a device can report
MemoryTypeLists ==
    UNION {[1 .. n -> SUBSET MemoryFlags] : n \in 0 .. MaxMemoryTypes}

\* a Device with any memory types, asked for any allocation
InitAlloc ==
    /\ DeviceNew
    /\ live = {}
    /\ watcher = "off"
    /\ arg \in [fn : {"allocate_buffer", "allocate_image"},
                type_filter : 0 .. (2 ^ MaxMemoryTypes - 1),
                props : SUBSET MemoryFlags,
                memory_types : MemoryTypeLists]
    /\ arg.fn = "allocate_image" => arg.props = {"DEVICE_LOCAL"}
    /\ ret = [fn |-> "none"]
    /\ NoPoll

NextAlloc ==
    \/ allocate_buffer
    \/ allocate_image

SpecAlloc == InitAlloc /\ [][NextAlloc]_vars

\* ------------------------------------------------------------- pick_gpu
\* what pick_gpu requires of a GPU
Mandatory == {"extensions", "queue_index", "sampler_anisotropy", "fill_mode_non_solid",
              "wide_lines", "present_mode", "msaa", "format"}

\* a score that looks at the device type only
ScoreDeviceType(props) == IF props.discrete THEN 101 ELSE 1

\* the closure of pick_gpu's map: 1, 100 more for a discrete GPU, then 0 for
\* every mandatory property the GPU lacks
Score(props) ==
    LET s0 == 1
        s1 == IF props.discrete THEN s0 + 100 ELSE s0
        s2 == IF "extensions" \in props.missing THEN 0 ELSE s1
        s3 == IF "queue_index" \in props.missing THEN 0 ELSE s2
        s4 == IF "sampler_anisotropy" \in props.missing THEN 0 ELSE s3
        s5 == IF "fill_mode_non_solid" \in props.missing THEN 0 ELSE s4
        s6 == IF "wide_lines" \in props.missing THEN 0 ELSE s5
        s7 == IF "present_mode" \in props.missing THEN 0 ELSE s6
        s8 == IF "msaa" \in props.missing THEN 0 ELSE s7
    IN  IF "format" \in props.missing THEN 0 ELSE s8

\* `gpu_properties.iter().enumerate().map(..).collect()`: <<index, score>> pairs
Scores(gpus) == [k \in 1 .. Len(gpus) |-> <<k - 1, Score(gpus[k])>>]

\* an insertion that puts x in front of the elements that compare equal
RECURSIVE InsertBeforeEqual(_, _)
InsertBeforeEqual(sorted, x) ==
    IF sorted = <<>> THEN <<x>>
    ELSE IF Head(sorted)[2] > x[2]
         THEN <<Head(sorted)>> \o InsertBeforeEqual(Tail(sorted), x)
         ELSE <<x>> \o sorted

\* x goes behind every element whose score is not lower: the order of
\* sort_by(|a, b| b.1.cmp(&a.1)), which is stable
RECURSIVE Insert(_, _)
Insert(sorted, x) ==
    IF sorted = <<>> THEN <<x>>
    ELSE IF Head(sorted)[2] >= x[2]
         THEN <<Head(sorted)>> \o Insert(Tail(sorted), x)
         ELSE <<x>> \o sorted

RECURSIVE SortByScore(_, _)
SortByScore(sorted, rest) ==
    IF rest = <<>> THEN sorted
    ELSE SortByScore(Insert(sorted, Head(rest)), Tail(rest))

\* `scores.retain(|s| s.1 > 0)`
IsPositive(s) == s[2] > 0

Retain(scores) == SelectSeq(scores, IsPositive)

\* sort, retain, first
PickResult(gpus) ==
    LET scores == Retain(SortByScore(<<>>, Scores(gpus))) IN
    IF scores = <<>>
    THEN [fn |-> "pick_gpu", result |-> "Err", error |-> "NoSuitableGpu"]
    ELSE [fn |-> "pick_gpu", result |-> "Ok", error |-> "NONE", picked |-> Head(scores)[1]]

pick_gpu ==
    /\ arg.fn = "pick_gpu"
    /\ ret.fn = "none"
    /\ ret' = PickResult(arg.gpu_properties)
    /\ UNCHANGED <<frameVars, arg>>

\* a GPU is discrete or not and lacks at most one mandatory property
GpuProperties ==
    [discrete : BOOLEAN, missing : {{}} \cup {{c} : c \in Mandatory}]

GpuLists == UNION {[1 .. n -> GpuProperties] : n \in 0 .. MaxGpus}

\* Context::new: the instance has enumerated the GPUs, none is picked yet
InitPick ==
    /\ DeviceNew
    /\ variant = "draw_it"
    /\ live = {}
    /\ watcher = "off"
    /\ arg \in [fn : {"pick_gpu"}, gpu_properties : GpuLists]
    /\ ret = [fn |-> "none"]
    /\ NoPoll

SpecPick == InitPick /\ [][pick_gpu]_vars

\* -------------------------------------------------- create_shader_module
\* any length passes the size check
AnySize(size) == TRUE

\* "check data size": the length must divide by 4
SizeOk(size) == size % 4 = 0

\* u32::swap_bytes
swap_bytes(w) ==
    LET b0 == w % (2 ^ 8)
        b1 == (w \div (2 ^ 8)) % (2 ^ 8)
        b2 == (w \div (2 ^ 16)) % (2 ^ 8)
        b3 == w \div (2 ^ 24)
    IN  b0 * (2 ^ 24) + b1 * (2 ^ 16) + b2 * (2 ^ 8) + b3

\* the u32 that four bytes in memory are on a host of the given byte order
WordOf(b, endian) ==
    IF endian = "little"
    THEN b[1] + b[2] * (2 ^ 8) + b[3] * (2 ^ 16) + b[4] * (2 ^ 24)
    ELSE b[4] + b[3] * (2 ^ 8) + b[2] * (2 ^ 16) + b[1] * (2 ^ 24)

\* "read data": read_exact copies words * 4 bytes into the Vec<u32>
ReadWords(source, words, endian) ==
    [i \in 1 .. words |-> WordOf(SubSeq(source, 4 * i - 3, 4 * i), endian)]

\* a correction that swaps the first word only
SwapFirst(code) ==
    [i \in DOMAIN code |-> IF i = 1 THEN swap_bytes(code[i]) ELSE code[i]]

\* for word in &mut code { *word = word.swap_bytes() }
SwapAll(code) == [i \in DOMAIN code |-> swap_bytes(code[i])]

InvalidShader ==
    [fn |-> "create_shader_module", result |-> "Err", error |-> "InvalidShader",
     code |-> <<>>, swapped |-> FALSE, created |-> FALSE]

\* what create_shader_module returns for the bytes of source, and whether
\* vk::create_shader_module made a module; native is that call's result code
ShaderResult(source, endian, native) ==
    LET size == Len(source) IN
    IF ~SizeOk(size) THEN InvalidShader
    ELSE
        LET words == size \div 4
            code == ReadWords(source, words, endian)
            swap == code # <<>> /\ code[1] = swap_bytes(magic_number)
            fixed == IF swap THEN SwapAll(code) ELSE code
        IN  IF fixed = <<>> \/ fixed[1] # magic_number THEN InvalidShader
            ELSE IF native # "SUCCESS"
            THEN [fn |-> "create_shader_module", result |-> "Panic", error |-> native,
                  code |-> fixed, swapped |-> swap, created |-> FALSE]
            ELSE [fn |-> "create_shader_module", result |-> "Ok", error |-> "NONE",
                  code |-> fixed, swapped |-> swap, created |-> TRUE]

create_shader_module ==
    /\ arg.fn = "create_shader_module"
    /\ ret.fn = "none"
    /\ ret' = ShaderResult(arg.source, arg.endian, arg.native)
    /\ UNCHANGED <<frameVars, arg>>

\* the bytes of the magic number; every word made of them is below 2^31
ShaderBytes == {magic_number % (2 ^ 8), (magic_number \div (2 ^ 8)) % (2 ^ 8),
                (magic_number \div (2 ^ 16)) % (2 ^ 8), magic_number \div (2 ^ 24)}

ShaderSources == UNION {[1 .. n -> ShaderBytes] : n \in 0 .. MaxBytes}

\* Shader::new is about to hand the bytes of a file to create_shader_module
InitShader ==
    /\ DeviceNew
    /\ variant = "draw_it"
    /\ live = {}
    /\ watcher = "off"
    /\ arg \in [fn : {"create_shader_module"}, source : ShaderSources,
                endian : {"little", "big"},
                native : {"SUCCESS", "ERROR_OUT_OF_HOST_MEMORY"}]
    /\ ret = [fn |-> "none"]
    /\ NoPoll

SpecShader == InitShader /\ [][create_shader_module]_vars

\* ----------------------------------------------------------- watch_file
\* the times a file's metadata can show
Times == 0 .. MaxModifications

\* the (pointer, path) pair the thread sends
Notification == <<"pointer", "path">>

\* a thread that remembers the first time it saw
KeepFirst(last, modified) == IF last.some THEN last ELSE Some(modified)

\* last_modified = Some(modified)
Remember(last, modified) == Some(modified)

\* one turn of the thread's loop: read the metadata, compare with
\* last_modified, send when they differ, remember, sleep.  send fails when
\* the receiver is gone and expect("bad receiver") ends the thread.
Poll ==
    /\ poller = "polling"
    /\ LET modified == modified_time
           differs == last_modified.some /\ last_modified.time # modified
       IN  IF differs /\ receiver = "dropped"
           THEN /\ poller' = "panicked"
                /\ UNCHANGED <<channel, last_modified>>
           ELSE /\ channel' = IF differs THEN Append(channel, Notification) ELSE channel
                /\ last_modified' = Remember(last_modified, modified)
                /\ UNCHANGED poller
    /\ observed' = Some(modified_time)
    /\ tick' = ~tick
    /\ UNCHANGED <<frameVarsNoPoll, arg, ret, modified_time, modifications, receiver>>

\* something writes the file: its modification time becomes another one
FileModified ==
    /\ modifications < MaxModifications
    /\ modifications' = modifications + 1
    /\ \E t \in Times \ {modified_time} : modified_time' = t
    /\ UNCHANGED <<frameVarsNoPoll, arg, ret, last_modified, channel, receiver, poller,
                   observed, tick>>

\* the owner of the receiving end drops it
DropReceiver ==
    /\ receiver = "alive"
    /\ receiver' = "dropped"
    /\ UNCHANGED <<frameVarsNoPoll, arg, ret, modified_time, modifications, last_modified,
                   channel, poller, observed, tick>>

\* watch_file has spawned the thread and the thread has opened the file
InitPoll ==
    /\ DeviceNew
    /\ live = {}
    /\ watcher = "off"
    /\ NoCall
    /\ modified_time \in Times
    /\ modifications = 0
    /\ last_modified = None
    /\ channel = <<>>
    /\ receiver = "alive"
    /\ poller = "polling"
    /\ observed = None
    /\ tick = FALSE

NextPoll ==
    \/ Poll
    \/ FileModified
    \/ DropReceiver

\* the loop sleeps 500 ms and polls again, for ever
SpecPoll == InitPoll /\ [][NextPoll]_vars /\ WF_vars(Poll)

\* ------------------------------------------------------------------ Next
\* the frame protocol driven through Context: Device, Context, GPU
NextContext ==
    \/ swapchain_next
    \/ next_frame
    \/ submit
    \/ present
    \/ GpuComplete
    \/ wait_for_idle
    \/ swapchain_recreate
    \/ DropDevice
    \/ draw
    \/ draw_ui
    \/ draw_on_window
    \/ RecordDraw
    \/ resize
    \/ DropContext

\* the frame protocol, driven through Context or by direct calls
NextFrame ==
    \/ NextContext
    \/ DevNextFrame
    \/ DevSubmit
    \/ DevPresent

Next ==
    \/ NextFrame
    \/ DevRecord
    \/ \E h \in Handles : DropBufferMemory(h)
    \/ \E h \in Handles : DropShader(h)
    \/ \E h \in Handles : DropShaderDirect(h)
    \/ \E h \in Handles : DropImageMemory(h)

\* resources are created, used and dropped around the frame protocol
Spec == Init /\ [][Next]_vars

\* the frame protocol alone
SpecFrame == InitFrame /\ [][NextFrame]_vars

\* the frame protocol on a GPU that completes every submission it was given,
\* with waits that return once what they wait for has happened
SpecIdle ==
    SpecFrame /\ WF_vars(GpuComplete) /\ WF_vars(wait_for_idle) /\ WF_vars(next_frame)

\* one allocation request, on a device with one memory type
AllocRequests ==
    [fn : {"allocate_buffer", "allocate_image"}, type_filter : {1},
     props : {{"DEVICE_LOCAL"}}, memory_types : {<<{"DEVICE_LOCAL"}>>}]

\* either the run's resources exist already, or the first is being allocated
InitOps ==
    /\ DeviceNew
    /\ watcher = "off"
    /\ NoPoll
    /\ \/ live = Handles /\ NoCall
       \/ live = {} /\ arg \in AllocRequests /\ ret = [fn |-> "none"]

NextOps ==
    \/ NextFrame
    \/ NextCommands
    \/ NextAlloc
    \/ \E h \in Handles : DropBufferMemory(h)
    \/ \E h \in Handles : DropShader(h)
    \/ \E h \in Handles : DropImageMemory(h)

\* every Device operation that a claim about current_frame names
SpecOps == InitOps /\ [][NextOps]_vars

NextWatch ==
    \/ NextContext
    \/ \E h \in Handles : DropShader(h)
    \/ WatcherWrite
    \/ WatcherReplace
    \/ WatcherStop

\* the frame protocol with a watched shader
SpecWatch == InitWatch /\ [][NextWatch]_vars

\* the frame protocol with single use command submissions in between
SpecCommands == InitFrame /\ [][NextFrame \/ NextCommands]_vars

\* ================================================================ claims
\* a handle that went through free_buffer / destroy_pipeline
Deferred(h) == KindOf(h) \in {"buffer", "pipeline"} /\ freed_at[h] # NoSlot

\* the step makes a native destroy call on handle h
Destroyed(h) == destroys'[h] > destroys[h]

\* the step is next_frame's flush of slot s, taken after its fence wait returned
FlushOf(s) == pc = "nf_wait" /\ nf_slot = s /\ fence[s]

\* the step is Device's Drop
DeviceDropStep == pc = "teardown" /\ pc' = "dropped"

SlotQueuesKept(s) ==
    /\ destroyed_pipelines'[s] = destroyed_pipelines[s]
    /\ destroyed_buffers'[s] = destroyed_buffers[s]
    /\ destroyed_images'[s] = destroyed_images[s]

\* C2: an image handed to free_image is released like a buffer: never by
\* free_image itself, only by the flush of a slot's queue after that slot's
\* fence wait or by Device drop, and never while a submitted, not yet
\* completed command buffer may reference it.
C2_ImagesDeferred ==
    [][\A h \in Handles :
          (KindOf(h) = "image" /\ Destroyed(h))
              => /\ h \notin InFlightRefs
                 /\ \/ DeviceDropStep
                    \/ (FlushOf(nf_slot) /\ h \in Queued(nf_slot))]_vars

\* C3: dropping a buffer wrapper or a shader wrapper makes no native destroy
\* call: it appends one record to the current slot's queue and leaves every
\* other slot's queues as they are.
C3_DropOnlyEnqueues ==
    [][\A h \in live \ live' :
          KindOf(h) \in {"buffer", "pipeline"}
              => /\ destroys' = destroys
                 /\ SlotCount(current_frame, h)' = SlotCount(current_frame, h) + 1
                 /\ \A s \in Slots \ {current_frame} : SlotQueuesKept(s)]_vars

\* C4: every enqueued handle is destroyed exactly once, by the flush of the
\* slot it was enqueued in or by Device drop; a flush empties the slot's
\* queues and touches no other slot; after Device drop nothing is queued and
\* nothing is left undestroyed.
C4_ExactlyOnce ==
    /\ [](\A h \in Handles :
             /\ destroys[h] <= 1
             /\ destroys[h] + QueuedCount(Slots, h) <= 1)
    /\ [](pc = "dropped" =>
             /\ \A s \in Slots : Queued(s) = {}
             /\ \A h \in Handles : destroys[h] = 1)
    /\ [][\A h \in Handles :
             (Deferred(h) /\ Destroyed(h))
                 => /\ destroys'[h] = destroys[h] + 1
                    /\ \/ DeviceDropStep
                       \/ /\ FlushOf(nf_slot)
                          /\ h \in Queued(nf_slot)
                          /\ Queued(nf_slot)' = {}
                          /\ \A s \in Slots \ {nf_slot} : SlotQueuesKept(s)]_vars

\* Device was dropped after one handle was flushed by next_frame and
\* another by the drop itself
C4_Witness ==
    /\ pc = "dropped"
    /\ \E h \in Handles : released_by[h] = "next_frame" /\ destroys[h] = 1
    /\ \E h \in Handles : released_by[h] = "drop" /\ destroys[h] = 1

\* C5 as stated: the k-th next_frame call (k from 0) makes slot k mod 2
\* current, so that the calls visit 0, 1, 0, 1, ...
C5_RotationFromZero ==
    frames_done >= 1 => current_frame = (frames_done - 1) % FRAMES_IN_FLIGHT

\* C5: rotation is strict round-robin: current_frame starts at 0 and every
\* next_frame advances it before using it, so the k-th completed call
\* (k from 0) makes slot (k + 1) mod 2 current: 1, 0, 1, 0, ...; no slot is
\* skipped or selected twice in a row.
C5_Rotation == current_frame = frames_done % FRAMES_IN_FLIGHT

\* three calls have completed: slots 1, 0, 1
C5_Witness == frames_done = 3 /\ current_frame = 1 /\ pc = "idle"

\* C6: while the caller follows next_frame, submit, present, at most
\* FRAMES_IN_FLIGHT submissions are queued and not yet completed; present
\* never waits for the GPU.
C6_Backpressure ==
    /\ proto # "broken" => Len(inflight) <= FRAMES_IN_FLIGHT
    /\ pc = "present" => ENABLED present

\* two frames are in flight and the third next_frame waits on its fence
C6_Witness ==
    /\ proto # "broken"
    /\ Len(inflight) = FRAMES_IN_FLIGHT
    /\ pc = "nf_wait"
    /\ ~fence[nf_slot]

\* no submit was made and no native call failed
NoSubmit == sync_used.wait = NoSlot /\ failures = 0

\* C7 as stated: with no submit and no fence signal the first two
\* next_frame calls do not wait and the third waits on slot 0's fence.
C7_ThirdWaitsOnSlotZero ==
    (NoSubmit /\ pc = "nf_wait")
        => /\ frames_done < FRAMES_IN_FLIGHT => fence[nf_slot]
           /\ frames_done >= FRAMES_IN_FLIGHT => (nf_slot = 0 /\ ~fence[0])

\* C7: with no submit and no fence signal the first two next_frame calls
\* do not wait; the third selects slot 1 again (the rotation is 1, 0, 1),
\* finds its fence unsignaled and waits: it never reaches the command
\* buffer reset or the queue flush, and no third call completes.
C7_ThirdCallWaits ==
    /\ NoSubmit => frames_done <= FRAMES_IN_FLIGHT
    /\ (NoSubmit /\ pc = "nf_wait")
          => /\ frames_done < FRAMES_IN_FLIGHT => fence[nf_slot]
             /\ frames_done >= FRAMES_IN_FLIGHT
                   => /\ nf_slot = 1
                      /\ ~fence[1]
                      /\ cmd[1] = "recording"
                      /\ ~ENABLED next_frame

\* the third call is waiting
C7_Witness ==
    /\ NoSubmit
    /\ frames = 3
    /\ frames_done = 2
    /\ pc = "nf_wait"
    /\ ~fence[nf_slot]

\* C8: through Context, as long as every call succeeds, each frame runs
\* next_frame, then submit, then present, once each and in that order;
\* submit and present are never reached without the frame's next_frame.
C8_ContextProtocol ==
    (caller = "context" /\ failures = 0)
        => /\ proto # "broken"
           /\ pc = "submit" => proto = "next_frame"
           /\ pc = "present" => proto = "submit"
           /\ render_stage = "During"
                 <=> \/ pc \in {"nf_acquire", "nf_wait"}
                     \/ (proto = "next_frame" /\ pc # "submit")

\* Context has run two whole frames
C8_Witness ==
    /\ caller = "context"
    /\ failures = 0
    /\ frames_done = 2
    /\ proto = "present"
    /\ pc = "idle"

\* C9: submit waits on the acquire semaphore and signals the release
\* semaphore and the fence of the slot whose acquire semaphore the
\* preceding next_frame passed to the swapchain acquire, and present waits
\* on that slot's release semaphore.
C9_OneSlotChain ==
    [][/\ Len(inflight') > Len(inflight)
            => /\ sync_used'.wait = sync_used.acquire
               /\ sync_used'.signal = sync_used.acquire
               /\ sync_used'.done = sync_used.acquire
       /\ pc = "present" => sync_used'.present = sync_used.acquire]_vars

\* C10: an out of date swapchain acquire inside next_frame does not end in
\* a panic: the caller gets a condition it can answer with a resize.
C10_AcquireOutOfDateNotFatal ==
    [][(pc = "nf_acquire" /\ err' = "OUT_OF_DATE")
            => (result' # "Panic" /\ pc' # "panicked")]_vars

\* C11: a present that fails because the surface is out of date is not
\* fatal: it does not end in a panic, the caller is told to resize; every
\* other present failure is fatal.
C11_PresentOutOfDateNotFatal ==
    [][(pc = "present" /\ err' = "OUT_OF_DATE")
            => (result' # "Panic" /\ pc' # "panicked")]_vars

SingleUsePending == \E i \in 1 .. Len(inflight) : inflight[i].slot = NoSlot

\* the step belongs to do_commands / submit_and_wait
DoCommandsStep == pc' # pc /\ (pc \in {"dc_record", "dc_submit", "dc_wait"} \/ pc' = "dc_record")

\* C13: submit_and_wait queues the buffer with no semaphore and no fence and
\* returns only when nothing at all is pending on the device; do_commands
\* allocates and begins, records and ends, submits and waits, then destroys
\* the buffer, never while its submission is pending, and leaves the current
\* slot, the fences, the slots' command buffers and the queues as they are.
C13_SingleUseCommands ==
    /\ [](/\ pc = "dc_record" => cmd[SingleUse] = "recording"
          /\ pc = "dc_submit" => cmd[SingleUse] = "executable"
          /\ pc = "dc_wait" => cmd[SingleUse] \in {"pending", "invalid"})
    /\ [][/\ (pc = "dc_submit" /\ pc' = "dc_wait")
               => /\ inflight' = Append(inflight, [slot |-> NoSlot, refs |-> {}, covers |-> {}])
                  /\ sync_used' = sync_used
          /\ (pc = "dc_wait" /\ result' = "Ok" /\ pc' = "idle") => inflight = <<>>
          /\ (cmd[SingleUse] # "none" /\ cmd'[SingleUse] = "none")
               => (cmd[SingleUse] = "invalid" /\ ~SingleUsePending)
          /\ DoCommandsStep
               => /\ current_frame' = current_frame
                  /\ fence' = fence
                  /\ \A t \in Slots : cmd'[t] = cmd[t] /\ SlotQueuesKept(t)]_vars

\* a frame was submitted, the single use submission was made after it, both
\* have completed and do_commands is about to destroy its buffer
C13_Witness ==
    /\ pc = "dc_wait"
    /\ cmd[SingleUse] = "invalid"
    /\ inflight = <<>>
    /\ sync_used.done \in Slots
    /\ failures = 0

\* C14: the hot reload thread performs no Device operation: none of its
\* steps creates or destroys a GPU object or changes a reclamation queue;
\* it only notifies the render thread.
C14_WatcherTouchesNoGpuState ==
    [][watcher' # watcher => UNCHANGED <<queueVars, resVars, histVars>>]_vars

\* index i is a memory type the request can use
Conforms(i) ==
    /\ i \in 0 .. (Len(arg.memory_types) - 1)
    /\ HasType(arg.type_filter, i)
    /\ (IF arg.fn = "allocate_image" THEN {"DEVICE_LOCAL"} ELSE arg.props)
           \subseteq arg.memory_types[i + 1]

\* the allocation got as far as the memory type selection
Selected == ret.fn \in {"allocate_buffer", "allocate_image"} /\ "handle" \in ret.native

\* C15: memory type selection is sound and complete: the index chosen has
\* its bit set in the requirement bitmask and has every required flag, and
\* the allocation fails with UnsupportedMemoryType exactly when no index
\* of the reported list does.
C15_MemoryTypeSelection ==
    Selected =>
        IF \E i \in 0 .. (MaxMemoryTypes - 1) : Conforms(i)
        THEN ret.mem_type.some /\ Conforms(ret.mem_type.index)
        ELSE ret.result = "Err" /\ ret.error = "UnsupportedMemoryType"

\* C16: a failed allocate_buffer returns nothing but the error and leaves no
\* buffer handle and no memory it created undestroyed.
C16_AllocateBufferNoLeak ==
    (ret.fn = "allocate_buffer" /\ ret.result # "Ok")
        => (~ret.returned /\ ret.native = {})

\* the GPU at enumeration index i has every mandatory property
Qualified(i) == arg.gpu_properties[i + 1].missing = {}

\* C17: pick_gpu never picks a GPU that lacks a mandatory property, even
\* when that GPU is discrete and every GPU that has them all is not.
C17_PickNeverDisqualified ==
    (ret.fn = "pick_gpu" /\ ret.result = "Ok")
        => /\ ret.picked \in 0 .. (Len(arg.gpu_properties) - 1)
           /\ Qualified(ret.picked)

\* a discrete GPU lacking a property came first, an integrated one that has
\* them all was picked
C17_Witness ==
    /\ ret.fn = "pick_gpu"
    /\ ret.result = "Ok"
    /\ ret.picked = 1
    /\ arg.gpu_properties[1].discrete
    /\ arg.gpu_properties[1].missing = {"sampler_anisotropy"}
    /\ ~arg.gpu_properties[2].discrete

\* the reference score: 0 when disqualified, 101 for a qualified discrete
\* GPU, 1 for any other qualified GPU
RefScore(i) ==
    IF ~Qualified(i) THEN 0
    ELSE IF arg.gpu_properties[i + 1].discrete THEN 101 ELSE 1

\* C18: pick_gpu returns Ok(i) with i the lowest enumeration index among
\* the GPUs of maximal positive reference score, and Err(NoSuitableGpu)
\* exactly when no GPU has a positive score, the empty list included.
C18_PickIsReferenceSelection ==
    ret.fn = "pick_gpu" =>
        LET idx == 0 .. (Len(arg.gpu_properties) - 1) IN
        IF \A i \in idx : RefScore(i) = 0
        THEN ret.result = "Err" /\ ret.error = "NoSuitableGpu"
        ELSE /\ ret.result = "Ok"
             /\ ret.picked \in idx
             /\ \A i \in idx : RefScore(i) <= RefScore(ret.picked)
             /\ \A i \in idx : RefScore(i) = RefScore(ret.picked) => ret.picked <= i

\* two qualified discrete GPUs tie behind an integrated one: the first of
\* the two is picked
C18_Witness ==
    /\ ret.fn = "pick_gpu"
    /\ Len(arg.gpu_properties) = 3
    /\ \A i \in 0 .. 2 : Qualified(i)
    /\ ~arg.gpu_properties[1].discrete
    /\ arg.gpu_properties[2].discrete
    /\ arg.gpu_properties[3].discrete
    /\ ret.result = "Ok"
    /\ ret.picked = 1

\* the bytes 07 23 02 03 of the magic number, lowest byte first and highest
\* byte first
MagicLowFirst == <<3, 2, 35, 7>>
MagicHighFirst == <<7, 35, 2, 3>>

\* the reference: a non-empty stream of whole words that starts with the
\* magic number in one of the two byte orders
ValidStream(source) ==
    /\ Len(source) > 0
    /\ Len(source) % 4 = 0
    /\ SubSeq(source, 1, 4) \in {MagicLowFirst, MagicHighFirst}

\* C19: create_shader_module rejects a byte stream with InvalidShader
\* exactly when the stream is empty, its length does not divide by 4 or its
\* first word is the magic number in neither byte order; every other stream
\* is accepted (Ok, once the native creation succeeds), and a rejection
\* creates no native shader module.
C19_ShaderValidation ==
    ret.fn = "create_shader_module" =>
        /\ (ret.result = "Err") <=> ~ValidStream(arg.source)
        /\ ret.result = "Err" => (ret.error = "InvalidShader" /\ ~ret.created)
        /\ (ret.result = "Ok") <=> (ValidStream(arg.source) /\ arg.native = "SUCCESS")
        /\ ret.result = "Ok" => ret.created

\* two words, the first the magic number as the host reads it: accepted
C19_Witness ==
    /\ ret.fn = "create_shader_module"
    /\ Len(arg.source) = 8
    /\ arg.endian = "little"
    /\ SubSeq(arg.source, 1, 4) = MagicLowFirst
    /\ ret.result = "Ok"
    /\ ret.created
    /\ ~ret.swapped

\* the stream with the four bytes of every word reversed
SwapStream(source) ==
    [i \in DOMAIN source |-> source[4 * ((i - 1) \div 4) + 4 - ((i - 1) % 4)]]

\* C20: when a stream W is accepted as read, the stream with every word of
\* W byte-swapped is accepted too, is swapped back inside the call, and
\* gives the same number of words and the same words as W.
C20_ShaderRoundTrip ==
    (ret.fn = "create_shader_module" /\ ret.result = "Ok" /\ ~ret.swapped) =>
        LET other == ShaderResult(SwapStream(arg.source), arg.endian, arg.native) IN
        /\ other.result = "Ok"
        /\ other.swapped
        /\ Len(other.code) = Len(ret.code)
        /\ other.code = ret.code

\* W has a second word that changes when its bytes are swapped
C20_Witness ==
    /\ ret.fn = "create_shader_module"
    /\ ret.result = "Ok"
    /\ ~ret.swapped
    /\ Len(ret.code) = 2
    /\ swap_bytes(ret.code[2]) # ret.code[2]
    /\ SwapStream(arg.source) # arg.source
    /\ ShaderResult(SwapStream(arg.source), arg.endian, arg.native).swapped

Pending == observed.some /\ observed.time # modified_time

\* the step is one poll of the thread
PollStep == tick' # tick

\* C22: at every poll the thread sends one (identifier, path) notification
\* exactly when the modification time it reads differs from the one the
\* previous poll read, and nothing at the first poll; nothing is sent
\* between polls; the thread ends only when a send finds the receiver gone.
\* The polls go on, so a modification still there at the next poll is
\* followed by a notification.
C22_PollNotifies ==
    /\ [][/\ ~PollStep => (channel' = channel /\ poller' = poller)
          /\ (PollStep /\ poller' = "polling")
                => /\ Pending => channel' = Append(channel, Notification)
                   /\ ~Pending => channel' = channel
          /\ (PollStep /\ poller' = "panicked")
                => (Pending /\ receiver = "dropped" /\ channel' = channel)]_vars
    /\ \A b \in BOOLEAN : \A n \in 0 .. MaxModifications :
          (Pending /\ poller = "polling" /\ tick = b /\ Len(channel) = n)
              ~> \/ (tick # b /\ Len(channel) > n)
                 \/ (tick = b /\ ~Pending)
                 \/ receiver = "dropped"

\* the file was changed and changed back between three polls: the second
\* change was notified as well
C22_Witness ==
    /\ poller = "polling"
    /\ receiver = "alive"
    /\ modifications = 2
    /\ Len(channel) = 2
    /\ ~Pending

\* a submission of slot s's command buffer is queued and not completed
SlotPending(s) == \E i \in 1 .. Len(inflight) : inflight[i].slot = s

\* the step is the part of next_frame after the fence wait, for slot s:
\* it frees the slot's command buffer and flushes the slot's queues
ResetOf(s) == pc = "nf_wait" /\ pc' # pc /\ nf_slot = s

\* C23: next_frame frees and re-records slot S's command buffer, and
\* flushes slot S's queues, only after the wait on S's fence has returned,
\* and never while a submission of that command buffer is still pending on
\* the GPU.
C23_ResetAfterFence ==
    [][\A s \in Slots :
          /\ ResetOf(s) => (fence[s] /\ ~SlotPending(s))
          /\ (cmd[s] = "pending" /\ cmd'[s] # "pending")
                => (~ResetOf(s) /\ cmd'[s] = "invalid")]_vars

\* the step is a swapchain acquire inside next_frame that returns an error
AcquireFails == pc = "nf_acquire" /\ failures' > failures

\* C24: when the swapchain acquire inside next_frame fails, next_frame
\* ends with that error and leaves the Device as it was: the current slot
\* index is not advanced, no fence is reset, no command buffer is freed or
\* allocated, no queue is flushed; the next call selects the same slot.
C24_FailedAcquireKeepsDevice ==
    [][AcquireFails
          => /\ UNCHANGED <<current_frame, fence, cmd, queueVars, bound, destroys>>
             /\ err' \in AcquireCodes \ {"SUCCESS"}
             /\ variant = "tegne" => (result' = "Err" /\ pc' = "idle")
             /\ NextSlot' = nf_slot']_vars

\* after one whole frame the acquire of the second frame was out of date
C24_Witness ==
    /\ variant = "tegne"
    /\ pc = "idle"
    /\ result = "Err"
    /\ err = "OUT_OF_DATE"
    /\ frames = 2
    /\ frames_done = 1
    /\ current_frame = 1
    /\ NextSlot = nf_slot
    /\ ~fence[1]
    /\ fence[0]

\* C25: between Context calls render_stage is During only while the current
\* slot's command buffer is open, that is after a next_frame that completed
\* and before the submit; when begin_draw's next_frame fails the stage is
\* Before, and while every call succeeds an open command buffer means During.
C25_DuringMeansRecording ==
    (caller = "context" /\ pc = "idle")
        => /\ render_stage = "During" => cmd[current_frame] = "recording"
           /\ (failures = 0 /\ cmd[current_frame] = "recording") => render_stage = "During"

\* C26: on a GPU that completes every submitted command buffer, every call
\* of wait_for_idle returns, also when it is made in the During stage, after
\* a next_frame has reset the current slot's fence and before the submit.
C26_WaitForIdleReturns == (pc = "wait_idle") ~> (pc # "wait_idle")

\* the step is next_frame's swapchain acquire
AcquireStep == pc = "nf_acquire" /\ pc' # pc

\* C27: when next_frame passes slot S's acquire semaphore to the swapchain
\* acquire, no submission that waits on that semaphore is still pending on
\* the GPU.
C27_AcquireSemaphoreFree ==
    [][AcquireStep => ~SlotPending(sync_used'.acquire)]_vars

\* the step is the watcher thread replacing the shader
ReplaceStep == watcher = "reloading" /\ watcher' = "watching"

\* C28: wherever the watcher thread's shader replacement falls between the
\* render thread's steps, the old pipeline is enqueued exactly once, is
\* destroyed exactly once, and is destroyed only when no submitted command
\* buffer that bound it is still pending on the GPU.
C28_HotReloadSafe ==
    /\ [](destroys["pipeline"] + QueuedCount(Slots, "pipeline") <= 1)
    /\ [][/\ ReplaceStep
               => /\ QueuedCount(Slots, "pipeline")' = 1
                  /\ SlotCount(current_frame, "pipeline")' = 1
                  /\ destroys' = destroys
          /\ Destroyed("pipeline")
               => /\ destroys'["pipeline"] = 1
                  /\ "pipeline" \notin InFlightRefs]_vars

\* C29: after a call has failed, and in particular after a next_frame that
\* failed once it had reset the new slot's fence, a later next_frame does
\* not wait for ever on the slot's fence.
C29_FailedFrameNoWedge == (failures > 0 /\ pc = "nf_wait") ~> (pc # "nf_wait")

\* the step is the end of a next_frame that succeeded
NextFrameDone == pc = "nf_wait" /\ pc' \in {"idle", "body"} /\ failures' = failures

\* the step belongs to submit, present, do_commands with its
\* submit_and_wait, a free_buffer, free_image or destroy_pipeline, or an
\* allocate_buffer or allocate_image
OtherOperation ==
    \/ pc \in {"submit", "present", "dc_record", "dc_submit", "dc_wait"}
    \/ pc' = "dc_record"
    \/ live' # live
    \/ ret' # ret

\* C30: the current slot index is always one of 0 .. FRAMES_IN_FLIGHT - 1;
\* it changes only at the end of a next_frame that succeeded, to
\* (previous + 1) mod FRAMES_IN_FLIGHT, when the new slot's command buffer
\* is already recording; submit, present, submit_and_wait, do_commands, the
\* free and destroy operations and the allocations leave it unchanged.
C30_CurrentSlot ==
    /\ [](current_frame \in Slots)
    /\ [][/\ current_frame' # current_frame
               => /\ NextFrameDone
                  /\ current_frame' = (current_frame + 1) % FRAMES_IN_FLIGHT
                  /\ cmd'[current_frame'] = "recording"
          /\ (NextFrameDone /\ pc' # "panicked") => current_frame' = nf_slot
          /\ OtherOperation => current_frame' = current_frame]_vars

\* two frames and a single use submission were made, every resource was
\* freed, and the index is back at slot 0
C30_Witness ==
    /\ frames_done = 2
    /\ current_frame = 0
    /\ cmd[0] = "recording"
    /\ live = {}
    /\ \A h \in Handles : freed_at[h] # NoSlot \/ destroys[h] > 0

====
